---------------------------- MODULE Spec2Model ----------------------------
(***************************************************************************)
(* Model of the Quran Shorts pipeline: scripts/main.py (orchestrator),     *)
(* scripts/logger.py (history store, database/used_videos.json),           *)
(* scripts/youtube_fetcher.py and scripts/license_validator.py (candidate  *)
(* filter) and scripts/pexels_fetcher.py (background selector).            *)
(*                                                                         *)
(* Scores are fixed-point integers: 1.0 is ScoreScale units, one decimal   *)
(* digit finer than the four places logger.record_background rounds to.    *)
(***************************************************************************)
EXTENDS Integers, Sequences, FiniteSets, TLC

----------------------------------------------------------------------------
(* Bounds of the model *)

\* number of pipeline runs (process invocations) in one behaviour
MaxRuns == 2
\* longest list returned by the YouTube videos.list details call
MaxCatalog == 2
\* longest list returned by one Pexels search
MaxCandidates == 2
\* number of calls of the history store in one behaviour of SpecStore
MaxCalls == 3

----------------------------------------------------------------------------
(* Program constants *)

ScoreScale == 100000
\* pexels_fetcher.HIGH_SCORE_THRESHOLD = 2.0
HIGH_SCORE_THRESHOLD == 2 * ScoreScale
\* pexels_fetcher.MIN_WIDTH / MIN_HEIGHT
MIN_WIDTH == 1080
MIN_HEIGHT == 1920
\* main.py: logger.record_background(pexels_id, engagement_boost=1.0)
ENGAGEMENT_BOOST == 1 * ScoreScale
\* youtube_fetcher: "Hard filter: must be under 60 seconds"
MAX_DURATION == 60
\* youtube_fetcher._parse_duration_seconds: value for unparseable durations
UNPARSEABLE_SECONDS == 9999

VideoIds == {"v1", "v2", "v3"}
BgIds == {"A", "B", "C"}
NoId == "none"

----------------------------------------------------------------------------
(* Generic helpers *)

Range(s) == {s[i] : i \in 1..Len(s)}

\* sequences over S of length <= n without a repeated id
RECURSIVE DistinctSeqs(_, _)
DistinctSeqs(S, n) ==
    IF n = 0 THEN {<<>>}
    ELSE LET shorter == DistinctSeqs(S, n - 1)
         IN  shorter \cup
             {Append(s, x) : s \in {t \in shorter : Len(t) = n - 1},
                             x \in S}

IdsDistinct(s) == \A i, j \in 1..Len(s) : s[i].id = s[j].id => i = j

----------------------------------------------------------------------------
(* History store: logger.py.  The file database/used_videos.json is       *)
(*   state "missing"  - the file does not exist,                          *)
(*   state "valid"    - the file holds the JSON of a record,              *)
(*   state "corrupt"  - the file was truncated by open(..., "w") and the  *)
(*                      dump did not complete; json.load raises on it.    *)
(* used is the list used_video_ids; perf is background_performance as the *)
(* insertion-ordered list of [id, score] entries of the dict.             *)

MissingFile == [state |-> "missing", used |-> <<>>, perf |-> <<>>]
CorruptFile == [state |-> "corrupt", used |-> <<>>, perf |-> <<>>]

\* faulty variant of load_db_raises: a missing file raises as well
load_db_raises_missing(file) == file.state # "valid"

\* load_db raises (json.JSONDecodeError) exactly on a corrupt file
load_db_raises(file) == file.state = "corrupt"

\* load_db: default structure if the file is missing, else its content
load_db(file) ==
    IF file.state = "missing"
    THEN [used |-> <<>>, perf |-> <<>>]
    ELSE [used |-> file.used, perf |-> file.perf]

\* A JSON text is a sequence of tokens: the brackets, strings and numbers.
Punct(c) == [kind |-> c, val |-> 0]
Str(string) == [kind |-> "str", val |-> string]
Num(number) == [kind |-> "num", val |-> number]

\* the members "key": number of a dict, in the dict's order
RECURSIVE DumpMembers(_)
DumpMembers(perf) ==
    IF perf = <<>> THEN <<>>
    ELSE <<Str(Head(perf).id), Num(Head(perf).score)>>
             \o DumpMembers(Tail(perf))

\* faulty variant of json_dump: the list is written in the reverse order
json_dump_reversed(data) ==
    <<Punct("{"), Str("used_video_ids"), Punct("[")>>
        \o [i \in 1..Len(data.used) |->
               Str(data.used[Len(data.used) + 1 - i])]
        \o <<Punct("]"), Str("background_performance"), Punct("{")>>
        \o DumpMembers(data.perf)
        \o <<Punct("}"), Punct("}")>>

\* json.dump(data, f): the two keys of the record in their order, the list
\* in its order, the dict in its insertion order
json_dump(data) ==
    <<Punct("{"), Str("used_video_ids"), Punct("[")>>
        \o [i \in 1..Len(data.used) |-> Str(data.used[i])]
        \o <<Punct("]"), Str("background_performance"), Punct("{")>>
        \o DumpMembers(data.perf)
        \o <<Punct("}"), Punct("}")>>

\* the result of a parsing step: whether it succeeded, the value, and the
\* index of the next token
Parsed(ok, val, next) == [ok |-> ok, val |-> val, next |-> next]

\* a list of strings, from the token after "["
RECURSIVE ParseList(_, _, _)
ParseList(text, i, acc) ==
    IF i > Len(text) THEN Parsed(FALSE, acc, i)
    ELSE IF text[i].kind = "]" THEN Parsed(TRUE, acc, i + 1)
    ELSE IF text[i].kind = "str"
         THEN ParseList(text, i + 1, Append(acc, text[i].val))
         ELSE Parsed(FALSE, acc, i)

\* a dict of numbers, from the token after "{"; a repeated key keeps its
\* place and takes the last value
RECURSIVE ParseDict(_, _, _)
ParseDict(text, i, acc) ==
    IF i > Len(text) THEN Parsed(FALSE, acc, i)
    ELSE IF text[i].kind = "}" THEN Parsed(TRUE, acc, i + 1)
    ELSE IF text[i].kind = "str" /\ i < Len(text) /\ text[i + 1].kind = "num"
         THEN ParseDict(text, i + 2,
                        IF \E k \in 1..Len(acc) : acc[k].id = text[i].val
                        THEN [k \in 1..Len(acc) |->
                                IF acc[k].id = text[i].val
                                THEN [id |-> acc[k].id,
                                      score |-> text[i + 1].val]
                                ELSE acc[k]]
                        ELSE Append(acc, [id |-> text[i].val,
                                          score |-> text[i + 1].val]))
         ELSE Parsed(FALSE, acc, i)

\* the members of the record, from the token after the first "{"
RECURSIVE ParseRecord(_, _, _)
ParseRecord(text, i, acc) ==
    IF i > Len(text) THEN Parsed(FALSE, acc, i)
    ELSE IF text[i].kind = "}" THEN Parsed(i = Len(text), acc, i + 1)
    ELSE IF text[i].kind # "str" \/ i = Len(text) THEN Parsed(FALSE, acc, i)
    ELSE IF text[i].val = "used_video_ids" /\ text[i + 1].kind = "["
         THEN LET list == ParseList(text, i + 2, <<>>)
              IN  IF list.ok
                  THEN ParseRecord(text, list.next,
                                   [acc EXCEPT !.used = list.val])
                  ELSE Parsed(FALSE, acc, i)
    ELSE IF text[i].val = "background_performance" /\ text[i + 1].kind = "{"
         THEN LET dict == ParseDict(text, i + 2, <<>>)
              IN  IF dict.ok
                  THEN ParseRecord(text, dict.next,
                                   [acc EXCEPT !.perf = dict.val])
                  ELSE Parsed(FALSE, acc, i)
    ELSE Parsed(FALSE, acc, i)

\* json.load(f) of a text: ok is FALSE where it raises json.JSONDecodeError
json_load(text) ==
    IF text # <<>> /\ text[1].kind = "{"
    THEN ParseRecord(text, 2, [used |-> <<>>, perf |-> <<>>])
    ELSE Parsed(FALSE, [used |-> <<>>, perf |-> <<>>], 1)

\* the file that holds text, as json.load reads it
FileOf(text) ==
    IF json_load(text).ok
    THEN [state |-> "valid", used |-> json_load(text).val.used,
          perf |-> json_load(text).val.perf]
    ELSE CorruptFile

\* save_db, when the dump completes: the file is opened with mode "w" and
\* holds the dumped text and nothing else
save_db(data) == FileOf(json_dump(data))

\* save_db, when it raises: makedirs/open failed (file untouched) or the
\* file was opened for writing (truncated) and the dump failed
save_db_failures(file) == {file, CorruptFile}

\* dict.get(key, default) on the ordered mapping
PerfGet(perf, id, default) ==
    IF \E i \in 1..Len(perf) : perf[i].id = id
    THEN perf[CHOOSE i \in 1..Len(perf) : perf[i].id = id].score
    ELSE default

\* dict[key] = value: in place for an existing key, appended for a new one
PerfSet(perf, id, value) ==
    IF \E i \in 1..Len(perf) : perf[i].id = id
    THEN [i \in 1..Len(perf) |->
            IF perf[i].id = id THEN [id |-> id, score |-> value] ELSE perf[i]]
    ELSE Append(perf, [id |-> id, score |-> value])

\* round(x, 4) on a non-negative fixed-point score
Round4(x) == ((x + 5) \div 10) * 10

\* faulty variant of is_used: the membership test always answers False
is_used_never(file, video_id) == FALSE

\* is_used: membership in used_video_ids after a fresh load
is_used(file, video_id) == video_id \in Range(load_db(file).used)

\* faulty variant of mark_used_record: the id is appended without the test
mark_used_appending(file, video_id) ==
    LET data == load_db(file)
    IN  [data EXCEPT !.used = Append(data.used, video_id)]

\* mark_used: the record that is handed to save_db
mark_used_record(file, video_id) ==
    LET data == load_db(file)
    IN  IF video_id \notin Range(data.used)
        THEN [data EXCEPT !.used = Append(data.used, video_id)]
        ELSE data

\* faulty variant of record_background_record: the boost replaces the stored score
record_background_overwrite(file, pexels_id, engagement_boost) ==
    LET data == load_db(file)
    IN  [data EXCEPT !.perf =
            PerfSet(data.perf, pexels_id, Round4(engagement_boost))]

\* faulty variant of record_background_record: the sum is stored unrounded
record_background_unrounded(file, pexels_id, engagement_boost) ==
    LET data    == load_db(file)
        current == PerfGet(data.perf, pexels_id, 0)
    IN  [data EXCEPT !.perf =
            PerfSet(data.perf, pexels_id, current + engagement_boost)]

\* record_background: the record that is handed to save_db
record_background_record(file, pexels_id, engagement_boost) ==
    LET data    == load_db(file)
        current == PerfGet(data.perf, pexels_id, 0)
    IN  [data EXCEPT !.perf =
            PerfSet(data.perf, pexels_id, Round4(current + engagement_boost))]

\* get_background_scores
get_background_scores(file) == load_db(file).perf

----------------------------------------------------------------------------
(* Candidate filter: youtube_fetcher.py and license_validator.py.         *)
(* A catalog item is what videos.list reports for one id: duration is the *)
(* ISO 8601 contentDetails.duration, license is status.license, and found *)
(* tells whether the validator's own videos.list call returns the id.     *)

Good(id) ==
    [id |-> id, duration |-> "PT45S", live |-> FALSE, age |-> FALSE,
     embeddable |-> TRUE, privacy |-> "public", license |-> "creativeCommon",
     found |-> TRUE]

\* The forms in which the catalog can report an id: acceptable; with a
\* defect the fetch tests for; with a defect only the validator tests for;
\* under the standard license.  The defects rotate over the ids, so that
\* every test of the two filters meets an item that fails it.
FetchDefect(id) ==
    CASE id = "v1" -> [Good(id) EXCEPT !.duration = "PT1M"]
      [] id = "v2" -> [Good(id) EXCEPT !.live = TRUE]
      [] OTHER     -> [Good(id) EXCEPT !.age = TRUE]

ValidatorDefect(id) ==
    CASE id = "v1" -> [Good(id) EXCEPT !.embeddable = FALSE]
      [] id = "v2" -> [Good(id) EXCEPT !.privacy = "private"]
      [] OTHER     -> [Good(id) EXCEPT !.found = FALSE]

ItemsOf(id) ==
    { Good(id),
      FetchDefect(id),
      ValidatorDefect(id),
      [Good(id) EXCEPT !.license = "youtube"] }

Items == UNION {ItemsOf(id) : id \in VideoIds}

\* what the details call can return: at most MaxCatalog items, no id twice
Catalogs == {c \in DistinctSeqs(Items, MaxCatalog) : IdsDistinct(c)}

\* _parse_duration_seconds
parse_duration_seconds(iso) ==
    CASE iso = "PT0S"  -> 0
      [] iso = "PT45S" -> 45
      [] iso = "PT1M"  -> 60
      [] OTHER         -> UNPARSEABLE_SECONDS

\* the three `continue` tests of the loop in fetch_quran_videos
PassesHardFilters(item) ==
    /\ ~(parse_duration_seconds(item.duration) >= MAX_DURATION)
    /\ ~item.live
    /\ ~item.age

\* fetch_quran_videos: the results list built from the details response
fetch_quran_videos(details) == SelectSeq(details, PassesHardFilters)

\* validate_video: the license test is a `pass`; not found, live,
\* age-restricted, not embeddable and not public return False
validate_video(item) ==
    /\ item.found
    /\ ~item.live
    /\ ~item.age
    /\ item.embeddable
    /\ item.privacy = "public"

\* filter_valid_videos
filter_valid_videos(videos) == SelectSeq(videos, validate_video)

\* faulty variant of filter_unused: no video is dropped
filter_unused_keeps_all(file, videos) == videos

\* main step 2: [v for v in videos if not logger.is_used(v["videoId"])]
filter_unused(file, videos) ==
    SelectSeq(videos, LAMBDA v : ~is_used(file, v.id))

----------------------------------------------------------------------------
(* Background selector: pexels_fetcher.py.  An asset is a Pexels video    *)
(* object [id, duration, files]; a file is a rendition [w, h].            *)

File(w, h) == [w |-> w, h |-> h]

\* rendition lists: nothing usable; only the taller-or-square fallback;
\* renditions of the minimum resolution; a small square one only; a wide
\* one of the minimum width after a taller one of a larger area
NoUsableFiles == <<File(640, 360)>>
FallbackFiles == <<File(360, 640), File(500, 500)>>
SizedFiles == <<File(720, 1280), File(1080, 1920)>>
SquareFiles == <<File(500, 500)>>
MixedFiles == <<File(1000, 1900), File(1080, 600)>>

FileLists ==
    {NoUsableFiles, FallbackFiles, SizedFiles, SquareFiles, MixedFiles}

\* the videos a search can return to a run of the pipeline: with and
\* without a usable rendition
Assets ==
    [id : BgIds, duration : {10}, files : {NoUsableFiles, SizedFiles}]

\* what one Pexels search can return
SearchResults == {c \in DistinctSeqs(Assets, MaxCandidates) : IdsDistinct(c)}

\* the videos a search can return to the selector: short and long ones,
\* with every rendition list
AllAssets == [id : BgIds, duration : {10, 120}, files : FileLists]

AllSearchResults ==
    {c \in DistinctSeqs(AllAssets, MaxCandidates) : IdsDistinct(c)}

\* max(seq, key): the index of the first element with the greatest key,
\* keys[i] being the key of the i-th element
RECURSIVE ArgMaxFrom(_, _, _)
ArgMaxFrom(keys, i, best) ==
    IF i > Len(keys) THEN best
    ELSE ArgMaxFrom(keys, i + 1, IF keys[i] > keys[best] THEN i ELSE best)

FirstMaxIndex(keys) == ArgMaxFrom(keys, 2, 1)

\* faulty variant of get_best_video_file: the fallback accepts every file
get_best_video_file_any(video) ==
    LET files    == video.files
        sized    == SelectSeq(files,
                        LAMBDA f : f.w >= MIN_WIDTH \/ f.h >= MIN_HEIGHT)
        portrait_files == IF sized = <<>> THEN files ELSE sized
    IN  IF portrait_files = <<>>
        THEN <<>>
        ELSE <<portrait_files[FirstMaxIndex(
                  [i \in 1..Len(portrait_files) |->
                      portrait_files[i].h * portrait_files[i].w])]>>

\* faulty variant of get_best_video_file: the largest file of both filters
get_best_video_file_largest(video) ==
    LET files    == video.files
        portrait_files ==
            SelectSeq(files,
                LAMBDA f : f.w >= MIN_WIDTH \/ f.h >= MIN_HEIGHT
                              \/ f.h >= f.w)
    IN  IF portrait_files = <<>>
        THEN <<>>
        ELSE <<portrait_files[FirstMaxIndex(
                  [i \in 1..Len(portrait_files) |->
                      portrait_files[i].h * portrait_files[i].w])]>>

\* _get_best_video_file: the chosen rendition, or <<>> for None
get_best_video_file(video) ==
    LET files    == video.files
        sized    == SelectSeq(files,
                        LAMBDA f : f.w >= MIN_WIDTH \/ f.h >= MIN_HEIGHT)
        fallback == SelectSeq(files, LAMBDA f : f.h >= f.w)
        portrait_files == IF sized = <<>> THEN fallback ELSE sized
    IN  IF portrait_files = <<>>
        THEN <<>>
        ELSE <<portrait_files[FirstMaxIndex(
                  [i \in 1..Len(portrait_files) |->
                      portrait_files[i].h * portrait_files[i].w])]>>

\* faulty variant of candidate_score: the known score is not weighted by 3
candidate_score_unweighted(scores, v) ==
    LET known_score == PerfGet(scores, v.id, 0)
        duration60  == IF v.duration < 60 THEN v.duration ELSE 60
    IN  known_score * 60 + duration60 * ScoreScale

\* faulty variant of candidate_score: the duration term is not capped at 1.0
candidate_score_uncapped(scores, v) ==
    LET known_score == PerfGet(scores, v.id, 0)
    IN  known_score * 3 * 60 + v.duration * ScoreScale

\* candidate_score, times 60 * ScoreScale so that it stays an integer:
\* known_score * 3.0 + min(duration / 60.0, 1.0)
candidate_score(scores, v) ==
    LET known_score == PerfGet(scores, v.id, 0)
        duration60  == IF v.duration < 60 THEN v.duration ELSE 60
    IN  known_score * 3 * 60 + duration60 * ScoreScale

\* list.sort(key, reverse=True): stable, descending; the elements are
\* [key, val] pairs
RECURSIVE InsertDesc(_, _)
InsertDesc(sorted, x) ==
    IF sorted = <<>> THEN <<x>>
    ELSE IF Head(sorted).key >= x.key
         THEN <<Head(sorted)>> \o InsertDesc(Tail(sorted), x)
         ELSE <<x>> \o sorted

RECURSIVE SortPairsDesc(_)
SortPairsDesc(s) ==
    IF s = <<>> THEN <<>>
    ELSE InsertDesc(SortPairsDesc(SubSeq(s, 1, Len(s) - 1)), s[Len(s)])

\* the candidates sorted by candidate_score, best first
sorted_candidates(scores, candidates) ==
    LET pairs  == [i \in 1..Len(candidates) |->
                     [key |-> candidate_score(scores, candidates[i]),
                      val |-> candidates[i]]]
        sorted == SortPairsDesc(pairs)
    IN  [i \in 1..Len(candidates) |-> sorted[i].val]

\* high_performers, in the mapping's order
high_performers(scores) ==
    SelectSeq(scores, LAMBDA e : e.score >= HIGH_SCORE_THRESHOLD)

\* faulty variant of best_id: the first high performer of the mapping
best_id_first(scores) == high_performers(scores)[1].id

\* best_id = max(high_performers, key=score)
best_id(scores) ==
    LET high == high_performers(scores)
    IN  high[FirstMaxIndex([i \in 1..Len(high) |-> high[i].score])].id

\* the loop over the sorted candidates: the first one with a usable file
first_with_file(candidates) ==
    LET usable == SelectSeq(candidates,
                            LAMBDA v : get_best_video_file(v) # <<>>)
    IN  IF usable = <<>> THEN NoId ELSE usable[1].id

\* the fetch-by-id answers: another status than 200, or 200 with a video
ReuseResponses ==
    {[status |-> 404, files |-> <<>>]} \cup
    {[status |-> 200, files |-> fl] : fl \in FileLists}

\* the answers to the fetch-by-id, which is only sent with a high performer
ReuseAnswers(scores) ==
    IF high_performers(scores) = <<>>
    THEN {[status |-> 404, files |-> <<>>]}
    ELSE ReuseResponses

\* one answer of each kind: not found, and a video with a usable rendition
PexelsReuseAnswers(scores) ==
    IF high_performers(scores) = <<>>
    THEN {[status |-> 404, files |-> <<>>]}
    ELSE {[status |-> 404, files |-> <<>>],
          [status |-> 200, files |-> SizedFiles]}

\* the answers to a search, which is only sent when `asked`
PexelsSearchAnswers(asked) == IF asked THEN SearchResults ELSE {<<>>}

\* strategy 1: the id that is re-used, NoId to fall back to the search
reuse_phase(scores, resp) ==
    IF /\ high_performers(scores) # <<>>
       /\ resp.status = 200
       /\ get_best_video_file(resp) # <<>>
    THEN best_id(scores)
    ELSE NoId

\* strategy 2: the id selected by the search, NoId when it raises
\* RuntimeError (no videos for any keyword, or no suitable portrait video)
search_phase(scores, first, second) ==
    LET candidates == IF first = <<>> THEN second ELSE first
    IN  IF candidates = <<>>
        THEN NoId
        ELSE first_with_file(sorted_candidates(scores, candidates))

\* select_and_download_background: the pexels_id returned, NoId when it
\* raises; resp, first and second are the answers of Pexels
select_and_download_background(scores, resp, first, second) ==
    IF reuse_phase(scores, resp) # NoId
    THEN reuse_phase(scores, resp)
    ELSE search_phase(scores, first, second)

\* the video and the rendition that the call downloads, <<>> when it
\* raises before a download
selected_rendition(scores, resp, first, second) ==
    IF reuse_phase(scores, resp) # NoId
    THEN <<[id |-> best_id(scores), file |-> get_best_video_file(resp)[1]]>>
    ELSE LET candidates == IF first = <<>> THEN second ELSE first
             usable == SelectSeq(sorted_candidates(scores, candidates),
                                 LAMBDA v : get_best_video_file(v) # <<>>)
         IN  IF usable = <<>>
             THEN <<>>
             ELSE <<[id |-> usable[1].id,
                     file |-> get_best_video_file(usable[1])[1]]>>

\* the requests the selector sends to Pexels, with their results: a
\* fetch-by-id is "usable" (status 200 and a rendition to download) or
\* "unusable", a search has "results" or is "empty"; "error" is a request
\* that raised
ById(id, result) == [kind |-> "fetch_by_id", id |-> id, result |-> result]
Search(result) == [kind |-> "search", id |-> NoId, result |-> result]
SearchOf(videos) == Search(IF videos = <<>> THEN "empty" ELSE "results")

\* strategy 1 sends one fetch-by-id, for best_id, if there is a high performer
reuse_requests(scores, resp) ==
    IF high_performers(scores) = <<>>
    THEN <<>>
    ELSE <<ById(best_id(scores),
                IF reuse_phase(scores, resp) = NoId
                THEN "unusable" ELSE "usable")>>

\* faulty variant of search_requests: the second keyword is always searched
search_requests_twice(first, second) ==
    <<SearchOf(first), SearchOf(second)>>

\* strategy 2 searches a random keyword, and a second one if the first
\* search returned no video
search_requests(first, second) ==
    <<SearchOf(first)>> \o
        (IF first = <<>> THEN <<SearchOf(second)>> ELSE <<>>)

\* faulty variant of selector_requests: the search runs after a re-use too
selector_requests_searching(scores, resp, first, second) ==
    reuse_requests(scores, resp) \o search_requests(first, second)

\* the requests of one call that no request error interrupts
selector_requests(scores, resp, first, second) ==
    reuse_requests(scores, resp) \o
        (IF reuse_phase(scores, resp) # NoId
         THEN <<>>
         ELSE search_requests(first, second))

\* the fetch-by-id after which the selector returned best_id, if any
supplying_fetch(sent) ==
    SelectSeq(sent, LAMBDA r : r.kind = "fetch_by_id" /\ r.result = "usable")

----------------------------------------------------------------------------
(* Orchestrator: main.py.  One behaviour is a sequence of runs of main(), *)
(* one process at a time, against the same database file.                 *)

VARIABLES
    db,             \* the file database/used_videos.json
    dbStart,        \* history variable: db when the current run started
    run,            \* number of the current run
    DRY_RUN,        \* main.DRY_RUN, read from the environment at import
    pc,             \* the step of main() that executes next, "exit" at end
    catalog,        \* the details response of this run's YouTube query
    videos,         \* main: videos
    unused_videos,  \* main: unused_videos
    valid_videos,   \* main: valid_videos
    video_id,       \* main: video_id, NoId before the selection
    pexels_id,      \* main: pexels_id, NoId before the selection
    log,            \* history variable: the stages invoked and the
                    \* outcomes reported by this run, in order
    failKind,       \* "none", "raise" (uncaught exception) or "crash"
    env,            \* the credential variables set (and not empty) in
                    \* the environment of this run
    uploadFailed,   \* platforms whose upload raised in this run
    requests,       \* history variable: the requests the selector has sent
                    \* to Pexels in this run, in order, with their results;
                    \* after step 7 only the fetch of a re-used background
    answers,        \* history variable of SpecSelect: the answers of Pexels
                    \* to the selector's requests, <<>> before the call
    rendition,      \* history variable of SpecSelect: the rendition that
                    \* the selector downloaded, <<>> if none
    calls,          \* history variable of SpecStore: the calls of the
                    \* history store so far, in order, and how they ended
    distributed,    \* history variable of SpecRuns: the source ids that
                    \* earlier runs handed to an uploader
    consumed        \* history variable: source ids of the earlier runs
                    \* that completed successfully

\* the history variables that only SpecSelect and SpecStore write
trace == <<answers, rendition, calls, distributed>>

vars == <<db, dbStart, run, DRY_RUN, pc, catalog, videos, unused_videos,
          valid_videos, video_id, pexels_id, log, failKind, env,
          uploadFailed, consumed, requests, trace>>

Outcomes == {"success", "noCandidates", "noEligibleAfterFiltering", "failed"}

Steps == <<"fetch", "filter_used", "validate", "download",
           "remove_background", "select_background", "compose", "metadata",
           "upload_youtube", "upload_instagram", "upload_tiktok",
           "mark_used", "record_background", "cleanup">>

\* histories left by earlier runs: no file yet, or two sources consumed
\* (one of them no longer offered by the catalog) with background A
InitFiles ==
    { MissingFile,
      save_db([used |-> <<"u1", "v1">>,
               perf |-> <<[id |-> "A", score |-> 2 * ScoreScale]>>]) }

Init ==
    /\ db \in InitFiles
    /\ dbStart = db
    /\ run = 1
    /\ DRY_RUN \in BOOLEAN
    /\ pc = "fetch"
    /\ catalog = <<>>
    /\ videos = <<>>
    /\ unused_videos = <<>>
    /\ valid_videos = <<>>
    /\ video_id = NoId
    /\ pexels_id = NoId
    /\ log = <<>>
    /\ failKind = "none"
    /\ env = {}
    /\ uploadFailed = {}
    /\ consumed = {}
    /\ requests = <<>>
    /\ answers = <<>>
    /\ rendition = <<>>
    /\ calls = <<>>
    /\ distributed = {}

\* the run goes on with the next step
Goto(step, next) ==
    /\ pc' = next
    /\ log' = Append(log, step)
    /\ failKind' = failKind

\* sys.exit(0) or the end of main(): the run reports outcome and ends
Finish(step, outcome) ==
    /\ pc' = "exit"
    /\ log' = log \o <<step, outcome>>
    /\ failKind' = failKind

\* an exception leaves main(): the run ends as failed
Raise(step) ==
    /\ pc' = "exit"
    /\ log' = log \o <<step, "failed">>
    /\ failKind' = "raise"

\* the lists of steps 1-3 are dropped: main() does not read them again, or
\* its frame is gone
DropLists ==
    /\ catalog' = <<>>
    /\ videos' = <<>>
    /\ unused_videos' = <<>>
    /\ valid_videos' = <<>>

Platforms == {"youtube", "instagram", "tiktok"}

\* the environment variables main() tests before it calls a platform's upload
CredentialVars(platform) ==
    CASE platform = "youtube" ->
            {"YOUTUBE_CLIENT_ID", "YOUTUBE_CLIENT_SECRET",
             "YOUTUBE_REFRESH_TOKEN"}
      [] platform = "instagram" ->
            {"INSTAGRAM_ACCESS_TOKEN", "INSTAGRAM_ACCOUNT_ID"}
      [] OTHER -> {"TIKTOK_ACCESS_TOKEN"}

\* the variable of a platform that a partly configured environment lacks
LastVar(platform) ==
    CASE platform = "youtube" -> "YOUTUBE_REFRESH_TOKEN"
      [] platform = "instagram" -> "INSTAGRAM_ACCOUNT_ID"
      [] OTHER -> "TIKTOK_ACCESS_TOKEN"

\* the environments of a run: nothing set, or for every platform all of
\* its variables set or all but the last one
Environments ==
    {{}} \cup
    { UNION {CredentialVars(p) : p \in Platforms}
         \ {LastVar(p) : p \in lacking} : lacking \in SUBSET Platforms }

\* faulty variant of has_credentials: one variable of the platform is enough
has_any_credential(platform, environment) ==
    CredentialVars(platform) \cap environment # {}

\* the test before an upload: all([os.environ.get(...), ...])
has_credentials(platform, environment) ==
    \A v \in CredentialVars(platform) : v \in environment

\* the platforms whose credentials are all present in the environment
credentials == {p \in Platforms : has_credentials(p, env)}

\* faulty variant of select_source: the last valid video is picked
select_source_last(valid) == valid[Len(valid)].id

\* main lines 75-76: video = valid_videos[0]; video_id = video["videoId"]
select_source(valid) == valid[1].id

\* faulty variant of Fetch: the empty result is reported but main() goes on
Fetch_without_exit ==
    /\ pc = "fetch"
    /\ \/ /\ Raise("fetch")
          /\ DropLists
       \/ \E details \in Catalogs :
            /\ catalog' = details
            /\ videos' = fetch_quran_videos(details)
            /\ pc' = "filter_used"
            /\ log' = IF videos' = <<>>
                      THEN log \o <<"fetch", "noCandidates">>
                      ELSE Append(log, "fetch")
            /\ failKind' = failKind
            /\ UNCHANGED <<unused_videos, valid_videos>>
    /\ UNCHANGED <<db, dbStart, run, DRY_RUN, video_id, pexels_id,
                   env, uploadFailed, consumed, requests, trace>>

\* Step 1: videos = youtube_fetcher.fetch_quran_videos(); exit if empty.
\* The API calls can raise.
Fetch ==
    /\ pc = "fetch"
    /\ \/ /\ Raise("fetch")
          /\ DropLists
       \/ \E details \in Catalogs :
            /\ catalog' = details
            /\ videos' = fetch_quran_videos(details)
            /\ IF videos' = <<>>
               THEN Finish("fetch", "noCandidates")
               ELSE Goto("fetch", "filter_used")
            /\ UNCHANGED <<unused_videos, valid_videos>>
    /\ UNCHANGED <<db, dbStart, run, DRY_RUN, video_id, pexels_id,
                   env, uploadFailed, consumed, requests, trace>>

\* Step 2: drop the used videos; exit if none is left.  is_used loads the
\* database for every video, which raises on a corrupt file.
FilterUsed ==
    /\ pc = "filter_used"
    /\ IF load_db_raises(db)
       THEN /\ Raise("filter_used")
            /\ DropLists
       ELSE /\ unused_videos' = filter_unused(db, videos)
            /\ IF unused_videos' = <<>>
               THEN Finish("filter_used", "noEligibleAfterFiltering")
               ELSE Goto("filter_used", "validate")
            /\ UNCHANGED <<catalog, videos, valid_videos>>
    /\ UNCHANGED <<db, dbStart, run, DRY_RUN, video_id, pexels_id,
                   env, uploadFailed, consumed, requests, trace>>

\* Step 3: license validation; exit if none is left, else pick the first.
\* The API calls can raise.
Validate ==
    /\ pc = "validate"
    /\ \/ /\ Raise("validate")
          /\ DropLists
          /\ UNCHANGED video_id
       \/ /\ valid_videos' = filter_valid_videos(unused_videos)
          /\ IF valid_videos' = <<>>
             THEN /\ Finish("validate", "noEligibleAfterFiltering")
                  /\ UNCHANGED video_id
             ELSE /\ Goto("validate", "download")
                  /\ video_id' = select_source(valid_videos')
          /\ UNCHANGED <<catalog, videos, unused_videos>>
    /\ UNCHANGED <<db, dbStart, run, DRY_RUN, pexels_id, env,
                   uploadFailed, consumed, requests, trace>>

\* A step that calls an external tool: it returns or raises RuntimeError.
\* Of the selector's requests only the one that supplied the background of
\* the run by re-use is remembered from here on.
ExternalStep(step, next) ==
    /\ pc = step
    /\ \/ Raise(step)
       \/ Goto(step, next)
    /\ DropLists
    /\ requests' = supplying_fetch(requests)
    /\ UNCHANGED <<db, dbStart, run, DRY_RUN, video_id, pexels_id,
                   env, uploadFailed, consumed, trace>>

\* faulty variant of Download: the source is marked used as soon as it is downloaded
Download_marking_used ==
    /\ pc = "download"
    /\ \/ /\ Raise("download")
          /\ UNCHANGED db
       \/ /\ Goto("download", "remove_background")
          /\ db' = IF load_db_raises(db) THEN db
                   ELSE save_db(mark_used_record(db, video_id))
    /\ DropLists
    /\ requests' = <<>>
    /\ UNCHANGED <<dbStart, run, DRY_RUN, video_id, pexels_id, env,
                   uploadFailed, consumed, trace>>

\* Step 4: downloader.download_video_and_audio(video_id)
Download == ExternalStep("download", "remove_background")

\* Step 5: background_remover.remove_background(...)
RemoveBackground == ExternalStep("remove_background", "select_background")

\* Step 6: pexels_id, bg_path = select_and_download_background(), given the
\* answers of Pexels.  It raises when the search finds nothing usable and
\* when the download fails.
SelectReturn(resp, first, second) ==
    LET scores == get_background_scores(db)
        chosen == select_and_download_background(scores, resp, first, second)
    IN  /\ requests' = selector_requests(scores, resp, first, second)
        /\ IF chosen = NoId
           THEN /\ Raise("select_background")
                /\ UNCHANGED pexels_id
           ELSE \/ /\ Goto("select_background", "compose")
                   /\ pexels_id' = chosen
                \* _download_video raises
                \/ /\ Raise("select_background")
                   /\ UNCHANGED pexels_id

\* The selector is left by an exception of load_db (corrupt database) or of
\* a request: of the fetch-by-id, of the first search or of the second one.
SelectRaise ==
    /\ pc = "select_background"
    /\ Raise("select_background")
    /\ IF load_db_raises(db)
       THEN requests' = <<>>
       ELSE LET scores == get_background_scores(db)
            IN  \/ /\ high_performers(scores) # <<>>
                   /\ requests' = <<ById(best_id(scores), "error")>>
                \/ \E resp \in PexelsReuseAnswers(scores) :
                     /\ reuse_phase(scores, resp) = NoId
                     /\ \/ requests' = reuse_requests(scores, resp)
                                          \o <<Search("error")>>
                        \/ requests' = reuse_requests(scores, resp)
                                          \o <<Search("empty"),
                                               Search("error")>>
    /\ UNCHANGED <<db, dbStart, run, DRY_RUN, catalog, videos, unused_videos,
                   valid_videos, video_id, pexels_id, env, uploadFailed,
                   consumed, trace>>

SelectBackground ==
    \/ SelectRaise
    \/ /\ pc = "select_background"
       /\ ~load_db_raises(db)
       /\ \E resp \in PexelsReuseAnswers(get_background_scores(db)) :
          \E first \in PexelsSearchAnswers(
                           reuse_phase(get_background_scores(db), resp)
                               = NoId) :
          \E second \in PexelsSearchAnswers(first = <<>>) :
            SelectReturn(resp, first, second)
       /\ UNCHANGED <<db, dbStart, run, DRY_RUN, catalog, videos,
                      unused_videos, valid_videos, video_id, env,
                      uploadFailed, consumed, trace>>

\* Step 7: composer.compose_video(...)
Compose == ExternalStep("compose", "metadata")

\* faulty variant of Metadata: step 9 uploads also in a dry run
Metadata_uploading ==
    /\ pc = "metadata"
    /\ Goto("metadata", "upload_youtube")
    /\ env' \in Environments
    /\ UNCHANGED <<db, dbStart, run, DRY_RUN, catalog, videos, unused_videos,
                   valid_videos, video_id, pexels_id, uploadFailed, consumed,
                   requests, trace>>

\* Step 8: metadata_generator.generate_metadata(...), then the DRY_RUN
\* test of step 9.  The environment of the process is fixed for the run;
\* its credential variables are drawn here, before their first read.
Metadata ==
    /\ pc = "metadata"
    /\ Goto("metadata", IF DRY_RUN THEN "mark_used" ELSE "upload_youtube")
    /\ env' \in Environments
    /\ UNCHANGED <<db, dbStart, run, DRY_RUN, catalog, videos, unused_videos,
                   valid_videos, video_id, pexels_id, uploadFailed, consumed,
                   requests, trace>>

\* Step 9, one platform: skipped without credentials; with them the upload
\* is called inside try/except Exception, which only prints a failure.
Upload(platform, step, next) ==
    /\ pc = step
    /\ IF has_credentials(platform, env)
       THEN /\ Goto(step, next)
            /\ \E ok \in BOOLEAN :
                 uploadFailed' = IF ok THEN uploadFailed
                                 ELSE uploadFailed \cup {platform}
       ELSE /\ pc' = next
            /\ UNCHANGED <<log, failKind, uploadFailed>>
    /\ UNCHANGED <<db, dbStart, run, DRY_RUN, catalog, videos, unused_videos,
                   valid_videos, video_id, pexels_id, env, consumed,
                   requests, trace>>

UploadYouTube == Upload("youtube", "upload_youtube", "upload_instagram")

\* faulty variant of UploadInstagram: the upload is called outside try/except
UploadInstagram_uncaught ==
    /\ pc = "upload_instagram"
    /\ IF has_credentials("instagram", env)
       THEN \/ /\ Goto("upload_instagram", "upload_tiktok")
               /\ UNCHANGED uploadFailed
            \/ /\ Raise("upload_instagram")
               /\ uploadFailed' = uploadFailed \cup {"instagram"}
       ELSE /\ pc' = "upload_tiktok"
            /\ UNCHANGED <<log, failKind, uploadFailed>>
    /\ UNCHANGED <<db, dbStart, run, DRY_RUN, catalog, videos, unused_videos,
                   valid_videos, video_id, pexels_id, env, consumed,
                   requests, trace>>

UploadInstagram == Upload("instagram", "upload_instagram", "upload_tiktok")

UploadTikTok == Upload("tiktok", "upload_tiktok", "mark_used")

\* A read-modify-write of the history store: load_db, change, save_db.
\* load_db raises on a corrupt file; save_db completes or raises.
StoreUpdate(step, next, record) ==
    /\ pc = step
    /\ IF load_db_raises(db)
       THEN /\ Raise(step)
            /\ UNCHANGED db
       ELSE \/ /\ db' = save_db(record)
               /\ Goto(step, next)
            \/ /\ db' \in save_db_failures(db)
               /\ Raise(step)
    /\ UNCHANGED <<dbStart, run, DRY_RUN, catalog, videos, unused_videos,
                   valid_videos, video_id, pexels_id, env,
                   uploadFailed, consumed, requests, trace>>

\* Step 10, first half: logger.mark_used(video_id)
MarkUsed ==
    StoreUpdate("mark_used", "record_background",
                mark_used_record(db, video_id))

\* Step 10, second half: logger.record_background(pexels_id, 1.0)
RecordBackground ==
    StoreUpdate("record_background", "cleanup",
                record_background_record(db, pexels_id, ENGAGEMENT_BOOST))

\* Step 11: cleanup_tmp(), then the success banner and the end of main()
Cleanup ==
    /\ pc = "cleanup"
    /\ \/ Raise("cleanup")
       \/ Finish("cleanup", "success")
    /\ UNCHANGED <<db, dbStart, run, DRY_RUN, catalog, videos, unused_videos,
                   valid_videos, video_id, pexels_id, env,
                   uploadFailed, consumed, requests, trace>>

\* The process is killed between two steps.
Crash ==
    /\ pc # "exit"
    /\ pc' = "exit"
    /\ log' = Append(log, "failed")
    /\ failKind' = "crash"
    /\ DropLists
    /\ requests' = <<>>
    /\ UNCHANGED <<db, dbStart, run, DRY_RUN, video_id, pexels_id,
                   env, uploadFailed, consumed, trace>>

\* The process is killed inside save_db, after open(DB_PATH, "w") truncated
\* the file and before json.dump completed.
CrashInSave ==
    /\ pc \in {"mark_used", "record_background"}
    /\ ~load_db_raises(db)
    /\ db' = CorruptFile
    /\ pc' = "exit"
    /\ log' = log \o <<pc, "failed">>
    /\ failKind' = "crash"
    /\ UNCHANGED <<dbStart, run, DRY_RUN, catalog, videos, unused_videos,
                   valid_videos, video_id, pexels_id, env,
                   uploadFailed, consumed, requests, trace>>

\* The scheduler invokes the pipeline again (if __name__ == "__main__").
Restart ==
    /\ pc = "exit"
    /\ run < MaxRuns
    /\ run' = run + 1
    /\ dbStart' = db
    /\ DRY_RUN' \in BOOLEAN
    /\ pc' = "fetch"
    /\ catalog' = <<>>
    /\ videos' = <<>>
    /\ unused_videos' = <<>>
    /\ valid_videos' = <<>>
    /\ video_id' = NoId
    /\ pexels_id' = NoId
    /\ log' = <<>>
    /\ failKind' = "none"
    /\ env' = {}
    /\ uploadFailed' = {}
    /\ consumed' = IF "success" \in Range(log)
                   THEN consumed \cup {video_id}
                   ELSE consumed
    /\ requests' = <<>>
    /\ UNCHANGED db

NewRun == Restart /\ UNCHANGED trace

Next ==
    \/ Fetch
    \/ FilterUsed
    \/ Validate
    \/ Download
    \/ RemoveBackground
    \/ SelectBackground
    \/ Compose
    \/ Metadata
    \/ UploadYouTube
    \/ UploadInstagram
    \/ UploadTikTok
    \/ MarkUsed
    \/ RecordBackground
    \/ Cleanup
    \/ Crash
    \/ CrashInSave
    \/ NewRun

Spec == Init /\ [][Next]_vars

TypeOK ==
    /\ db.state \in {"missing", "valid", "corrupt"}
    /\ run \in 1..MaxRuns
    /\ pc \in Range(Steps) \cup {"exit"}
    /\ video_id \in VideoIds \cup {NoId}
    /\ pexels_id \in BgIds \cup {NoId}
    /\ failKind \in {"none", "raise", "crash"}
    /\ env \in Environments
    /\ uploadFailed \subseteq Platforms
    /\ Len(requests) <= 3
    /\ trace = <<<<>>, <<>>, <<>>, {}>>

----------------------------------------------------------------------------
(* The same runs, with the sources that were handed to an uploader        *)
(* remembered from one run to the next.                                   *)

\* the uploaders that this run has called: upload_to_youtube,
\* post_to_instagram, post_to_tiktok
Uploaders ==
    {step \in {"upload_youtube", "upload_instagram", "upload_tiktok"} :
        step \in Range(log)}

NewRunAfterUploads ==
    /\ Restart
    /\ distributed' = IF Uploaders # {}
                      THEN distributed \cup {video_id}
                      ELSE distributed
    /\ UNCHANGED <<answers, rendition, calls>>

NextRuns ==
    \/ Fetch
    \/ FilterUsed
    \/ Validate
    \/ Download
    \/ RemoveBackground
    \/ SelectBackground
    \/ Compose
    \/ Metadata
    \/ UploadYouTube
    \/ UploadInstagram
    \/ UploadTikTok
    \/ MarkUsed
    \/ RecordBackground
    \/ Cleanup
    \/ Crash
    \/ CrashInSave
    \/ NewRunAfterUploads

SpecRuns == Init /\ [][NextRuns]_vars

----------------------------------------------------------------------------
(* The selector alone: one call of select_and_download_background from    *)
(* step 6 of a run, for every history and every answer of Pexels.         *)

History(perf) == save_db([used |-> <<"v1">>, perf |-> perf])
Score(id, score) == [id |-> id, score |-> score]

\* the histories at the call: none; one high performer and a low one; a
\* background below the threshold; two high performers with equal scores;
\* the best high performer after another one; a low score; a score
\* less than a third
SelectHistories ==
    { MissingFile,
      History(<<Score("A", 3 * ScoreScale), Score("B", 1 * ScoreScale)>>),
      History(<<Score("B", 150000)>>),
      History(<<Score("B", 2 * ScoreScale), Score("A", 2 * ScoreScale)>>),
      History(<<Score("B", 2 * ScoreScale), Score("A", 3 * ScoreScale)>>),
      History(<<Score("B", 50000)>>),
      History(<<Score("B", 20000)>>) }

InitSelect ==
    /\ db \in SelectHistories
    /\ dbStart = db
    /\ run = 1
    /\ DRY_RUN = TRUE
    /\ pc = "select_background"
    /\ catalog = <<>>
    /\ videos = <<>>
    /\ unused_videos = <<>>
    /\ valid_videos = <<>>
    /\ video_id = "v2"
    /\ pexels_id = NoId
    /\ log = <<"fetch", "filter_used", "validate", "download",
               "remove_background">>
    /\ failKind = "none"
    /\ env = {}
    /\ uploadFailed = {}
    /\ consumed = {}
    /\ requests = <<>>
    /\ answers = <<>>
    /\ rendition = <<>>
    /\ calls = <<>>
    /\ distributed = {}

\* the answers to a request that is only sent when `asked`
AnswersIn(results, asked) == IF asked THEN results ELSE {<<>>}

\* Step 6 with its answers and the download it starts recorded
SelectTraced ==
    /\ pc = "select_background"
    /\ ~load_db_raises(db)
    /\ LET scores == get_background_scores(db)
       IN  \E resp \in ReuseAnswers(scores) :
           \E first \in AnswersIn(AllSearchResults,
                                  reuse_phase(scores, resp) = NoId) :
           \E second \in AnswersIn(AllSearchResults, first = <<>>) :
             /\ SelectReturn(resp, first, second)
             /\ answers' = <<[resp |-> resp, first |-> first,
                              second |-> second]>>
             /\ rendition' = selected_rendition(scores, resp, first, second)
    /\ UNCHANGED <<db, dbStart, run, DRY_RUN, catalog, videos, unused_videos,
                   valid_videos, video_id, env, uploadFailed, consumed,
                   calls, distributed>>

NextSelect ==
    \/ SelectTraced
    \/ SelectRaise

SpecSelect == InitSelect /\ [][NextSelect]_vars

----------------------------------------------------------------------------
(* The history store alone: any sequence of calls of the functions of     *)
(* logger.py, one at a time, on the same file.                            *)

\* the ids and the boosts of the calls: 1.0 and 0.00004
StoreVideoIds == {"v1", "v2"}
StoreBgIds == {"A", "B"}
Boosts == {ENGAGEMENT_BOOST, 4}

\* the records handed to save_db directly: the default one, and one that
\* shares nothing with the histories of InitFiles
Records ==
    { [used |-> <<>>, perf |-> <<>>],
      [used |-> <<"v2">>,
       perf |-> <<[id |-> "B", score |-> 150000],
                  [id |-> "A", score |-> 1 * ScoreScale]>>] }

\* one call: its arguments, the file before it, whether it raised,
\* <<its return value>> if it returned one, and <<the record>> that it
\* handed to save_db if it called it
Called(op, id, boost, before, raised, result, data) ==
    [op |-> op, id |-> id, boost |-> boost, before |-> before,
     raised |-> raised, result |-> result, data |-> data]

\* the variables of the pipeline, which the store's functions do not touch
pipeline ==
    <<dbStart, run, DRY_RUN, pc, catalog, videos, unused_videos,
      valid_videos, video_id, pexels_id, log, failKind, env, uploadFailed,
      consumed, requests, answers, rendition, distributed>>

InitStore ==
    /\ db \in InitFiles
    /\ dbStart = db
    /\ run = 1
    /\ DRY_RUN = FALSE
    /\ pc = "exit"
    /\ catalog = <<>>
    /\ videos = <<>>
    /\ unused_videos = <<>>
    /\ valid_videos = <<>>
    /\ video_id = NoId
    /\ pexels_id = NoId
    /\ log = <<>>
    /\ failKind = "none"
    /\ env = {}
    /\ uploadFailed = {}
    /\ consumed = {}
    /\ requests = <<>>
    /\ answers = <<>>
    /\ rendition = <<>>
    /\ calls = <<>>
    /\ distributed = {}

\* a function that only loads: it raises on a corrupt file
Read(op, id, result) ==
    /\ Len(calls) < MaxCalls
    /\ calls' = Append(calls,
                       IF load_db_raises(db)
                       THEN Called(op, id, 0, db, TRUE, <<>>, <<>>)
                       ELSE Called(op, id, 0, db, FALSE, <<result>>, <<>>))
    /\ UNCHANGED <<db, pipeline>>

\* save_db(record): it completes or raises
Save(op, id, boost, record) ==
    \/ /\ db' = save_db(record)
       /\ calls' = Append(calls,
                          Called(op, id, boost, db, FALSE, <<>>, <<record>>))
    \/ /\ db' \in save_db_failures(db)
       /\ calls' = Append(calls,
                          Called(op, id, boost, db, TRUE, <<>>, <<record>>))

\* a function that loads, changes the record and saves it: load_db raises
\* on a corrupt file; save_db completes or raises
Write(op, id, boost, record) ==
    /\ Len(calls) < MaxCalls
    /\ IF load_db_raises(db)
       THEN /\ db' = db
            /\ calls' = Append(calls,
                               Called(op, id, boost, db, TRUE, <<>>, <<>>))
       ELSE Save(op, id, boost, record)
    /\ UNCHANGED pipeline

CallLoadDb == Read("load_db", NoId, load_db(db))

CallSaveDb ==
    /\ Len(calls) < MaxCalls
    /\ \E record \in Records : Save("save_db", NoId, 0, record)
    /\ UNCHANGED pipeline

CallIsUsed ==
    \E id \in StoreVideoIds : Read("is_used", id, is_used(db, id))

CallGetBackgroundScores ==
    Read("get_background_scores", NoId, get_background_scores(db))

CallMarkUsed ==
    \E id \in StoreVideoIds :
        Write("mark_used", id, 0, mark_used_record(db, id))

CallRecordBackground ==
    \E id \in StoreBgIds, boost \in Boosts :
        Write("record_background", id, boost,
              record_background_record(db, id, boost))

NextStore ==
    \/ CallLoadDb
    \/ CallSaveDb
    \/ CallIsUsed
    \/ CallGetBackgroundScores
    \/ CallMarkUsed
    \/ CallRecordBackground

SpecStore == InitStore /\ [][NextStore]_vars

----------------------------------------------------------------------------
(* Vocabulary of the properties *)

Last(s) == s[Len(s)]

\* the terminal outcomes this run has reported, in order
Reported == SelectSeq(log, LAMBDA e : e \in Outcomes)

\* the stages this run has invoked
Invoked == Range(log) \ Outcomes

UploadSteps == {"upload_youtube", "upload_instagram", "upload_tiktok"}

\* the stages that follow the selection of the source
Downstream ==
    {"download", "remove_background", "select_background", "compose",
     "metadata", "mark_used", "record_background", "cleanup"}
        \cup UploadSteps

\* the platforms whose upload function this run has called
Attempted ==
    {p \in Platforms :
        \/ p = "youtube" /\ "upload_youtube" \in Invoked
        \/ p = "instagram" /\ "upload_instagram" \in Invoked
        \/ p = "tiktok" /\ "upload_tiktok" \in Invoked}

\* usedSourceIds and the score of a background in a persisted history
UsedIds(file) == Range(file.used)
ScoreOf(file, id) == PerfGet(file.perf, id, 0)
HasScore(file, id) == \E i \in 1..Len(file.perf) : file.perf[i].id = id

Succeeded == pc = "exit" /\ log # <<>> /\ Last(log) = "success"

\* the run's source is in the persisted history and was not at the start
SourceCommitted ==
    /\ video_id # NoId
    /\ video_id \in UsedIds(db)
    /\ video_id \notin UsedIds(dbStart)

\* the persisted score of the run's background is its start score + 1.0
BackgroundCommitted ==
    /\ pexels_id # NoId
    /\ HasScore(db, pexels_id)
    /\ ScoreOf(db, pexels_id) = ScoreOf(dbStart, pexels_id) + ENGAGEMENT_BOOST

\* the seven eligibility conditions of the candidate filter
Eligible(item, file) ==
    /\ parse_duration_seconds(item.duration) < 60
    /\ ~item.live
    /\ ~item.age
    /\ item.embeddable
    /\ item.privacy = "public"
    /\ item.license = "creativeCommon"
    /\ item.id \notin UsedIds(file)

\* a is b with some elements left out, the others in their order
RECURSIVE IsSubsequence(_, _)
IsSubsequence(a, b) ==
    IF a = <<>> THEN TRUE
    ELSE IF b = <<>> THEN FALSE
    ELSE IF Head(a) = Head(b)
         THEN IsSubsequence(Tail(a), Tail(b))
         ELSE IsSubsequence(a, Tail(b))

\* what the code tests of an item: the fetch filters, the used-id filter
\* and validate_video
PassesAllTests(item, file) ==
    /\ PassesHardFilters(item)
    /\ item.id \notin UsedIds(file)
    /\ validate_video(item)

----------------------------------------------------------------------------
(* Properties *)

\* C1 - Deferred commit: mark_used and record_background are invoked only
\* after fetch, used-filtering, validation, selection, download, background
\* removal, background selection, composition and metadata generation have
\* been invoked and the distribution step is over; as long as the update
\* step has not started, in a running or a stopped run, the persisted
\* history is the history at the start of the run.
C1_DeferredCommit ==
    /\ \A i \in 1..Len(log) :
         log[i] \in {"mark_used", "record_background"} =>
            /\ {"fetch", "filter_used", "validate", "download",
                "remove_background", "select_background", "compose",
                "metadata"} \subseteq Range(SubSeq(log, 1, i - 1))
            /\ \A j \in i..Len(log) : log[j] \notin UploadSteps
            /\ video_id # NoId
            /\ pexels_id # NoId
    /\ "mark_used" \notin Invoked => db = dbStart

\* a run killed after an upload was attempted, before the update step
C1_Witness ==
    /\ pc = "exit"
    /\ failKind = "crash"
    /\ "upload_tiktok" \in Invoked
    /\ "mark_used" \notin Invoked
    /\ db = dbStart

\* C2 - Joint atomic commit: wherever a run has stopped, the persisted
\* history holds both the run's source id and the +1.0 on the chosen
\* background's score, or neither.
C2_JointCommit ==
    pc = "exit" => (SourceCommitted <=> BackgroundCommitted)

\* C3 - No repeat selection: the source a run selects was never consumed by
\* an earlier run that completed successfully.
C3_NoRepeatSelection ==
    video_id # NoId => video_id \notin consumed

\* a later run is offered the consumed id first and selects another one
C3_Witness ==
    /\ pc = "download"
    /\ consumed # {}
    /\ catalog[1].id \in consumed
    /\ PassesHardFilters(catalog[1])
    /\ validate_video(catalog[1])
    /\ video_id \notin consumed

\* C4 - Candidate filtering: the valid videos are a subsequence of the
\* catalog items in their order, and each of them satisfies the seven
\* eligibility conditions.
C4_FilterSound ==
    valid_videos # <<>> =>
        /\ IsSubsequence(valid_videos, catalog)
        /\ \A i \in 1..Len(valid_videos) : Eligible(valid_videos[i], dbStart)

\* C5 - Defense in depth: an item whose license is not creativeCommons is
\* never selected as the run's source.
C5_LicenseReverified ==
    pc = "download" =>
        \A i \in 1..Len(catalog) :
            catalog[i].id = video_id => catalog[i].license = "creativeCommon"

\* C6 - One terminal outcome: a run reports at most one outcome, it has
\* reported one exactly when it has ended, nothing is invoked after the
\* outcome, and success comes right after mark_used, record_background and
\* cleanup.
C6_OneOutcome ==
    /\ Len(Reported) <= 1
    /\ pc = "exit" <=> Len(Reported) = 1
    /\ Reported # <<>> => Last(log) = Reported[1]
    /\ Succeeded =>
          /\ Len(log) >= 4
          /\ SubSeq(log, Len(log) - 3, Len(log)) =
                <<"mark_used", "record_background", "cleanup", "success">>
          /\ failKind = "none"

\* a run that ended in success
C6_Witness == Succeeded /\ Reported = <<"success">>

\* the run ends here with outcome, nothing downstream invoked, history kept
EndsEarlyAs(outcome) ==
    /\ pc' = "exit"
    /\ Last(log') = outcome
    /\ Reported' = <<outcome>>
    /\ Invoked' \cap Downstream = {}
    /\ db' = dbStart'
    /\ db' = db

\* the step at pc returned to main()
Returned == pc' # pc /\ failKind' = "none"

C7_Step ==
    /\ (pc = "fetch" /\ Returned /\ videos' = <<>>)
          => EndsEarlyAs("noCandidates")
    /\ (pc = "filter_used" /\ Returned
          /\ \A i \in 1..Len(videos) : videos[i].id \in UsedIds(dbStart))
          => EndsEarlyAs("noEligibleAfterFiltering")
    /\ (pc = "validate" /\ Returned /\ valid_videos' = <<>>)
          => EndsEarlyAs("noEligibleAfterFiltering")

\* C7 - Early termination without mutation: a fetch that returns no item
\* ends the run as noCandidates; a used-id filter or a validation that
\* leaves no item ends it as noEligibleAfterFiltering; in both cases no
\* downstream stage is invoked and the persisted history is unchanged.
C7_EarlyTermination == [][C7_Step]_vars

\* the catalog has a single item, already used: noEligibleAfterFiltering
C7_Witness ==
    /\ pc = "exit"
    /\ Len(catalog) = 1
    /\ catalog[1].id \in UsedIds(dbStart)
    /\ videos = catalog
    /\ log = <<"fetch", "filter_used", "noEligibleAfterFiltering">>
    /\ db = dbStart

\* C8 - Deterministic source selection: the source is the first valid
\* video, which is the earliest catalog item that is unused and passes the
\* fetch filters and the validation.
C8_FirstEligible ==
    pc = "download" =>
        /\ video_id = valid_videos[1].id
        /\ \E k \in 1..Len(catalog) :
              /\ catalog[k].id = video_id
              /\ PassesAllTests(catalog[k], dbStart)
              /\ \A j \in 1..(k - 1) : ~PassesAllTests(catalog[j], dbStart)

\* two items pass every test and the earlier one is selected
C8_Witness ==
    /\ pc = "download"
    /\ Len(valid_videos) >= 2
    /\ video_id = catalog[1].id
    /\ video_id # Last(catalog).id

\* C9 - Effect of a successful run: usedSourceIds is the start-of-run list
\* plus the selected source id, the chosen background's score is its
\* start-of-run score (0.0 if absent) plus 1.0, every other score is as it
\* was.
C9_SuccessEffect ==
    Succeeded =>
        /\ db.state = "valid"
        /\ video_id \notin UsedIds(dbStart)
        /\ db.used = Append(load_db(dbStart).used, video_id)
        /\ HasScore(db, pexels_id)
        /\ ScoreOf(db, pexels_id) =
              ScoreOf(dbStart, pexels_id) + ENGAGEMENT_BOOST
        /\ \A b \in BgIds \ {pexels_id} :
              /\ HasScore(db, b) <=> HasScore(dbStart, b)
              /\ ScoreOf(db, b) = ScoreOf(dbStart, b)
        /\ Len(db.perf) =
              Len(dbStart.perf) + (IF HasScore(dbStart, pexels_id) THEN 0 ELSE 1)

\* from an empty history, v1 consumed: usedSourceIds is exactly [v1]
C9_Witness ==
    /\ Succeeded
    /\ dbStart = MissingFile
    /\ db.used = <<"v1">>
    /\ ScoreOf(db, pexels_id) = ENGAGEMENT_BOOST

\* a run that was stopped by an exception raised in step
RaisedIn(step) ==
    /\ failKind = "raise"
    /\ Len(log) >= 2
    /\ log[Len(log) - 1] = step

\* C10 - Distribution independence: in a non-dry run no exception of an
\* upload ends the run, every platform with credentials is attempted
\* whatever the other uploads did, and a run that succeeds has committed the
\* source id and the background score whichever uploads failed.
C10_DistributionIndependence ==
    /\ \A step \in UploadSteps : ~RaisedIn(step)
    /\ (~DRY_RUN /\ "mark_used" \in Invoked) => Attempted = credentials
    /\ (~DRY_RUN /\ pc \in {"mark_used", "record_background", "cleanup"})
          => Attempted = credentials
    /\ uploadFailed \subseteq Attempted
    /\ Succeeded => SourceCommitted /\ BackgroundCommitted

\* all three platforms are configured, all three uploads fail, the run
\* succeeds
C10_Witness ==
    /\ Succeeded
    /\ ~DRY_RUN
    /\ credentials = Platforms
    /\ uploadFailed = Platforms
    /\ SourceCommitted
    /\ BackgroundCommitted

\* the platforms every credential variable of which is in the environment
Configured == {p \in Platforms : CredentialVars(p) \subseteq env}

\* the run is past the distribution step
Distributed ==
    \/ pc \in {"mark_used", "record_background", "cleanup"}
    \/ "mark_used" \in Invoked

\* C11 - Missing credentials are a skip: in a non-dry run a platform is
\* attempted exactly when all of its credentials are present; a platform
\* with a credential missing is never invoked and never fails, and the run
\* still succeeds with the source id and the background score committed.
C11_MissingCredentialsSkip ==
    /\ Attempted \subseteq Configured
    /\ uploadFailed \subseteq Configured
    /\ DRY_RUN => Attempted = {}
    /\ (~DRY_RUN /\ Distributed) => Attempted = Configured
    /\ Succeeded => SourceCommitted /\ BackgroundCommitted

\* YouTube has two of its three variables and is not invoked, TikTok has
\* its variable and is; the run succeeds and commits
C11_Witness ==
    /\ Succeeded
    /\ ~DRY_RUN
    /\ "YOUTUBE_CLIENT_ID" \in env
    /\ "YOUTUBE_REFRESH_TOKEN" \notin env
    /\ "youtube" \notin Attempted
    /\ "tiktok" \in Attempted
    /\ SourceCommitted
    /\ BackgroundCommitted

\* the searches and the fetches by id among the selector's requests
Searches == SelectSeq(requests, LAMBDA r : r.kind = "search")
FetchesById == SelectSeq(requests, LAMBDA r : r.kind = "fetch_by_id")

\* both searches of this run returned no video
BothSearchesEmpty ==
    /\ Len(Searches) = 2
    /\ Searches[1].result = "empty"
    /\ Searches[2].result = "empty"

\* C12 - Bounded search: a run sends at most two searches, the second one
\* only after the first returned no video; when both return none the run
\* ends as failed in the selector, composition and distribution are not
\* invoked and the history is as it was at the start of the run.
C12_BoundedSearch ==
    /\ Len(Searches) <= 2
    /\ Len(Searches) = 2 => Searches[1].result = "empty"
    /\ BothSearchesEmpty =>
          /\ pc = "exit"
          /\ Reported = <<"failed">>
          /\ RaisedIn("select_background")
          /\ pexels_id = NoId
          /\ Invoked \cap ({"compose", "metadata", "mark_used",
                            "record_background"} \cup UploadSteps) = {}
          /\ db = dbStart

\* a run with a history on file whose two searches both return nothing
C12_Witness ==
    /\ BothSearchesEmpty
    /\ requests = <<Search("empty"), Search("empty")>>
    /\ db.state = "valid"
    /\ pc = "exit"
    /\ Last(log) = "failed"

\* the backgrounds of the history whose score is at least 2.0
HighScorers == {i \in 1..Len(db.perf) : db.perf[i].score >= 2 * ScoreScale}

\* i is the highest of them, the first one in the mapping's order on a tie
IsTopScorer(i) ==
    /\ i \in HighScorers
    /\ \A j \in HighScorers \ {i} :
          \/ db.perf[i].score > db.perf[j].score
          \/ db.perf[i].score = db.perf[j].score /\ i < j

SearchPhaseRan == answers # <<>> /\ Searches # <<>>

SearchCandidates ==
    IF answers[1].first = <<>> THEN answers[1].second ELSE answers[1].first

\* candidateScore = historyScore * 3 + min(durationSeconds / 60, 1), times
\* 60 and in the unit of the scores
CandidateScore60(v) ==
    3 * 60 * ScoreOf(db, v.id)
        + ScoreScale * (IF v.duration <= 60 THEN v.duration ELSE 60)

\* the asset has a rendition that the selector accepts
HasRendition(files) ==
    \E k \in 1..Len(files) :
        \/ files[k].w >= 1080
        \/ files[k].h >= 1920
        \/ files[k].h >= files[k].w

\* candidate i comes before candidate j in the selector's order
OrderedBefore(c, i, j) ==
    \/ CandidateScore60(c[i]) > CandidateScore60(c[j])
    \/ CandidateScore60(c[i]) = CandidateScore60(c[j]) /\ i < j

\* C14 - Search-phase choice: the candidates are ordered by candidateScore,
\* descending, ties in the order of the query; the selector downloads the
\* first candidate in that order that has an eligible rendition, skipping
\* those without, and fails exactly when no candidate has one.
C14_SearchChoice ==
    SearchPhaseRan =>
        LET c == SearchCandidates
        IN  /\ rendition # <<>> <=>
                  \E i \in 1..Len(c) : HasRendition(c[i].files)
            /\ rendition # <<>> =>
                  \E i \in 1..Len(c) :
                     /\ c[i].id = rendition[1].id
                     /\ HasRendition(c[i].files)
                     /\ \A j \in 1..Len(c) \ {i} :
                           HasRendition(c[j].files) => OrderedBefore(c, i, j)
            /\ rendition = <<>> =>
                  RaisedIn("select_background") /\ pexels_id = NoId
            /\ pexels_id # NoId => pexels_id = rendition[1].id

\* X (120 s, no history) is returned before Y (10 s, history 1.5), both are
\* eligible, and Y is selected
C14_Witness ==
    /\ SearchPhaseRan
    /\ ScoreOf(db, "B") = 150000
    /\ answers[1].first =
          <<[id |-> "A", duration |-> 120, files |-> SizedFiles],
            [id |-> "B", duration |-> 10, files |-> SizedFiles]>>
    /\ pexels_id = "B"
    /\ pc = "compose"

\* the recorded call re-used the high performer it fetched by id
Reused == FetchesById # <<>> /\ FetchesById[1].result = "usable"

\* the renditions of the asset whose download the recorded call started
PickedFiles ==
    IF Reused
    THEN answers[1].resp.files
    ELSE LET c == SearchCandidates
         IN  c[CHOOSE i \in 1..Len(c) : c[i].id = rendition[1].id].files

\* eligibility as the specification words it: a rendition of the minimum
\* width or height, or else one strictly taller than wide
EligibleStrictly(files) ==
    \E k \in 1..Len(files) :
        \/ files[k].w >= 1080
        \/ files[k].h >= 1920
        \/ files[k].h > files[k].w

SurvivingSet(files) ==
    LET sized == {k \in 1..Len(files) :
                     files[k].w >= 1080 \/ files[k].h >= 1920}
    IN  IF sized # {}
        THEN {files[k] : k \in sized}
        ELSE {files[k] : k \in {n \in 1..Len(files) :
                                   files[n].h >= files[n].w}}

Area(f) == f.w * f.h

\* C16 - Rendition choice: in both phases the rendition downloaded is one of
\* the greatest width * height in the surviving set: the renditions of the
\* minimum width or height when there is one (even if a fallback rendition
\* is larger), the fallback renditions otherwise.
C16_RenditionChoice ==
    rendition # <<>> =>
        /\ rendition[1].file \in SurvivingSet(PickedFiles)
        /\ \A g \in SurvivingSet(PickedFiles) :
              Area(rendition[1].file) >= Area(g)

\* the 1080 x 600 rendition is downloaded although the 1000 x 1900 one,
\* which is below the minimum in both dimensions, has the larger area
C16_Witness ==
    /\ rendition # <<>>
    /\ PickedFiles = MixedFiles
    /\ rendition[1].file = File(1080, 600)
    /\ Area(File(1000, 1900)) > Area(rendition[1].file)
    /\ pc = "compose"

\* C17 - Atomic save: whenever the history file is read, during a save or
\* after a crash in the middle of one, it holds a complete record (the one
\* before the save or the new one), never an empty or truncated one.
C17_AtomicSave == db.state \in {"missing", "valid"}

NoDuplicates(s) == \A i, j \in 1..Len(s) : s[i] = s[j] => i = j

\* the last call of the store, and that it was op and returned
LastCall == calls[Len(calls)]
LastReturned(op) == calls # <<>> /\ LastCall.op = op /\ ~LastCall.raised

\* C18 - mark_used is idempotent: after any sequence of calls no id is twice
\* in usedSourceIds; a mark_used that returns has saved a record that holds
\* the id, with the list unchanged if the id was in it and the id appended
\* if not, and with the scores unchanged.
C18_MarkUsedIdempotent ==
    /\ NoDuplicates(db.used)
    /\ LastReturned("mark_used") =>
          /\ db.state = "valid"
          /\ LastCall.id \in UsedIds(db)
          /\ db.used = IF LastCall.id \in UsedIds(LastCall.before)
                       THEN LastCall.before.used
                       ELSE Append(LastCall.before.used, LastCall.id)
          /\ db.perf = LastCall.before.perf

\* the same id is marked twice in a row; the second call returns and leaves
\* the list as the first one made it
C18_Witness ==
    /\ Len(calls) >= 2
    /\ LastReturned("mark_used")
    /\ calls[Len(calls) - 1].op = "mark_used"
    /\ ~calls[Len(calls) - 1].raised
    /\ calls[Len(calls) - 1].id = LastCall.id
    /\ LastCall.id \in UsedIds(LastCall.before)
    /\ db = LastCall.before

\* C19 as stated - record_background is additive: a call that returns has
\* added its increment to the stored score of its id, 0.0 being the prior
\* score of an unseen id.
C19_ExactlyAdditive ==
    LastReturned("record_background") =>
        ScoreOf(db, LastCall.id)
            = ScoreOf(LastCall.before, LastCall.id) + LastCall.boost

\* x rounded to four decimal places: the multiple of 0.0001 nearest to x
Nearest4(x) == CHOOSE m \in {x - 5 + k : k \in 1..10} : m % 10 = 0

\* the calls so far were all record_background with increment 1.0
OnlyUnitBoosts ==
    \A k \in 1..Len(calls) :
        calls[k].op = "record_background" /\ calls[k].boost = 1 * ScoreScale

\* the number of calls for id that returned
ReturnedFor(id) ==
    Cardinality({k \in 1..Len(calls) : calls[k].id = id /\ ~calls[k].raised})

\* C19 - record_background is additive, amended: a call that returns has
\* set the stored score of its id to the prior score (0.0 for an unseen
\* id) plus its increment, rounded to four decimal places, and has changed
\* no other score and no used id; an increment that is a multiple of 0.0001
\* is added exactly, and n calls with increment 1.0 add n.
C19_Additive ==
    /\ LastReturned("record_background") =>
          /\ db.state = "valid"
          /\ HasScore(db, LastCall.id)
          /\ ScoreOf(db, LastCall.id) =
                Nearest4(ScoreOf(LastCall.before, LastCall.id)
                            + LastCall.boost)
          /\ LastCall.boost % 10 = 0 =>
                ScoreOf(db, LastCall.id) =
                    ScoreOf(LastCall.before, LastCall.id) + LastCall.boost
          /\ \A other \in BgIds \ {LastCall.id} :
                /\ HasScore(db, other) = HasScore(LastCall.before, other)
                /\ ScoreOf(db, other) = ScoreOf(LastCall.before, other)
          /\ db.used = LastCall.before.used
    /\ (OnlyUnitBoosts /\ db.state # "corrupt") =>
          \A id \in BgIds :
             ScoreOf(db, id) =
                ScoreOf(dbStart, id) + ReturnedFor(id) * 1 * ScoreScale

\* two calls with increment 1.0 for the same id: its score is 2.0 higher
C19_Witness ==
    /\ Len(calls) = 2
    /\ OnlyUnitBoosts
    /\ ReturnedFor("A") = 2
    /\ ScoreOf(db, "A") = ScoreOf(dbStart, "A") + 2 * ScoreScale

\* the history after a step holds what it held before: every used id, every
\* background id, and no score lower than it was
HistoryGrows ==
    /\ UsedIds(db) \subseteq UsedIds(db')
    /\ \A id \in BgIds :
          /\ HasScore(db, id) => HasScore(db', id)
          /\ ScoreOf(db', id) >= ScoreOf(db, id)
          /\ ScoreOf(db', id) >= 0

\* C20 - History only grows: over any sequence of runs, successful, ended
\* early or failed, no id leaves usedSourceIds, no background id leaves
\* backgroundScores, and no score is negative or lower than it was before.
C20_HistoryOnlyGrows == [][HistoryGrows]_vars

\* two records have the same content: the same used ids in the same order
\* and the same score for the same background ids
SameContent(r1, r2) ==
    /\ r1.used = r2.used
    /\ \A id \in BgIds :
          /\ (\E i \in 1..Len(r1.perf) : r1.perf[i].id = id)
                <=> (\E i \in 1..Len(r2.perf) : r2.perf[i].id = id)
          /\ PerfGet(r1.perf, id, 0) = PerfGet(r2.perf, id, 0)

\* the last call handed a record to save_db, which completed
LastSaved == calls # <<>> /\ ~LastCall.raised /\ LastCall.data # <<>>

\* C21 - Round-trip stability: a record that is saved and loaded again has
\* the same content; load(save(load())) is load(); and after a save the
\* file holds the saved record and nothing of the record it held before.
C21_RoundTrip ==
    /\ db.state # "corrupt" =>
          SameContent(load_db(save_db(load_db(db))), load_db(db))
    /\ (calls # <<>> /\ LastCall.data # <<>>) =>
          SameContent(load_db(save_db(LastCall.data[1])), LastCall.data[1])
    /\ LastSaved =>
          /\ db.state = "valid"
          /\ SameContent(load_db(db), LastCall.data[1])
          /\ UsedIds(db) = Range(LastCall.data[1].used)

\* a record with v2 and the scores of B and A is saved over the history
\* with u1, v1 and A: the file holds that record, u1 and v1 are gone
C21_Witness ==
    /\ LastSaved
    /\ LastCall.op = "save_db"
    /\ "u1" \in UsedIds(LastCall.before)
    /\ UsedIds(db) = {"v2"}
    /\ db.perf = <<[id |-> "B", score |-> 150000],
                   [id |-> "A", score |-> 1 * ScoreScale]>>

\* the record of an empty history
DefaultRecord == [used |-> <<>>, perf |-> <<>>]

\* call k found no history file
OnMissing(k) == calls[k].before.state = "missing"

\* C22 - load never fails on missing storage: with no history file,
\* load_db returns the default record with no used id and no score, is_used
\* answers false, get_background_scores answers the empty mapping, and
\* mark_used and record_background get through their load: they save the
\* default record with their one change, and only that save can fail.
C22_LoadOnMissing ==
    /\ load_db(MissingFile) = DefaultRecord
    /\ \A k \in 1..Len(calls) :
          OnMissing(k) =>
             /\ calls[k].op = "load_db" =>
                   ~calls[k].raised /\ calls[k].result = <<DefaultRecord>>
             /\ calls[k].op = "is_used" =>
                   ~calls[k].raised /\ calls[k].result = <<FALSE>>
             /\ calls[k].op = "get_background_scores" =>
                   ~calls[k].raised /\ calls[k].result = <<(<<>>)>>
             /\ calls[k].op = "mark_used" =>
                   calls[k].data =
                      <<[used |-> <<calls[k].id>>, perf |-> <<>>]>>
             /\ calls[k].op = "record_background" =>
                   /\ calls[k].data # <<>>
                   /\ calls[k].data[1].used = <<>>
                   /\ Len(calls[k].data[1].perf) = 1
                   /\ calls[k].data[1].perf[1].id = calls[k].id
                   /\ calls[k].data[1].perf[1].score =
                         Nearest4(calls[k].boost)
    /\ (calls # <<>> /\ OnMissing(Len(calls)) /\ ~LastCall.raised
           /\ LastCall.op \in {"mark_used", "record_background"}) =>
          /\ db.state = "valid"
          /\ SameContent(load_db(db), LastCall.data[1])

\* with no history file is_used answers false, then mark_used of the same
\* id returns and the file holds that id alone
C22_Witness ==
    /\ Len(calls) = 2
    /\ dbStart = MissingFile
    /\ calls[1].op = "is_used"
    /\ calls[1].result = <<FALSE>>
    /\ calls[2].op = "mark_used"
    /\ calls[2].id = calls[1].id
    /\ OnMissing(2)
    /\ ~calls[2].raised
    /\ db.state = "valid"
    /\ db.used = <<calls[2].id>>

\* the candidates of the recorded search in the order the selector tries them
SortedCandidates ==
    sorted_candidates(get_background_scores(db), SearchCandidates)

\* in this order the candidate with this id comes before the one with that
Precedes(order, this, that) ==
    \E i, j \in 1..Len(order) :
        /\ i < j
        /\ order[i].id = this
        /\ order[j].id = that

\* the candidate with this id is tried before the one with that id
TriedBefore(this, that) == Precedes(SortedCandidates, this, that)

\* C23 - The capped novelty term never outweighs history: of two candidates
\* of one query, one whose history score is at least 1.0 higher - and even
\* one whose history score is at least 1/3 higher - is ordered before the
\* other whatever the two durations; only candidates whose history scores
\* differ by less than 1/3 can be ordered by their durations.
C23_HistoryOutweighsNovelty ==
    SearchPhaseRan =>
        LET found == SearchCandidates
            order == SortedCandidates
        IN  \A i, j \in 1..Len(found) :
            LET v == found[i]
                w == found[j]
            IN  /\ ScoreOf(db, v.id) >= ScoreOf(db, w.id) + 1 * ScoreScale
                      => Precedes(order, v.id, w.id)
                /\ 3 * (ScoreOf(db, v.id) - ScoreOf(db, w.id)) >= ScoreScale
                      => Precedes(order, v.id, w.id)
                /\ (/\ Precedes(order, v.id, w.id)
                    /\ i > j
                    /\ ScoreOf(db, v.id) <= ScoreOf(db, w.id))
                      => /\ v.duration > w.duration
                         /\ 3 * (ScoreOf(db, w.id) - ScoreOf(db, v.id))
                               < ScoreScale

\* B has the history score 0.5 and lasts 10 s, A has none and lasts 120 s
\* and comes first in the answer: B is tried first and selected
C23_Witness ==
    /\ SearchPhaseRan
    /\ ScoreOf(db, "B") = 50000
    /\ Len(SearchCandidates) = 2
    /\ SearchCandidates[1].id = "A"
    /\ SearchCandidates[1].duration = 120
    /\ SearchCandidates[1].files = SizedFiles
    /\ SearchCandidates[2].id = "B"
    /\ SearchCandidates[2].duration = 10
    /\ SearchCandidates[2].files = SizedFiles
    /\ TriedBefore("B", "A")
    /\ pexels_id = "B"

\* the high performer of a history that the selector would re-use: the
\* highest score of those at least 2.0, the first in the mapping on a tie
TopScorerOf(file) ==
    LET high == {i \in 1..Len(file.perf) :
                    file.perf[i].score >= 2 * ScoreScale}
        top  == CHOOSE i \in high :
                    \A j \in high \ {i} :
                       \/ file.perf[i].score > file.perf[j].score
                       \/ file.perf[i].score = file.perf[j].score /\ i < j
    IN  IF high = {} THEN NoId ELSE file.perf[top].id

\* the background of this run was re-used: its fetch by id was usable
ReusedInRun ==
    /\ requests # <<>>
    /\ requests[1].kind = "fetch_by_id"
    /\ requests[1].result = "usable"

BackgroundIds(file) == {file.perf[i].id : i \in 1..Len(file.perf)}

\* C24 - Background lock-in: in a run that starts with a score of at least
\* 2.0 and whose fetch by id has an eligible rendition, no search is sent and
\* the background is the top-scoring id; when such a run succeeds, that
\* id's score is 1.0 higher, no background id was added, and the id is the
\* top scorer of the next run again.
C24_BackgroundLockIn ==
    ReusedInRun =>
        /\ Searches = <<>>
        /\ Len(requests) = 1
        /\ TopScorerOf(dbStart) # NoId
        /\ requests[1].id = TopScorerOf(dbStart)
        /\ pexels_id \in {TopScorerOf(dbStart), NoId}
        /\ pc \notin {"select_background", "exit"} =>
              pexels_id = TopScorerOf(dbStart)
        /\ Succeeded =>
              /\ pexels_id = TopScorerOf(dbStart)
              /\ BackgroundIds(db) = BackgroundIds(dbStart)
              /\ ScoreOf(db, pexels_id) =
                    ScoreOf(dbStart, pexels_id) + 1 * ScoreScale
              /\ \A id \in BgIds \ {pexels_id} :
                    ScoreOf(db, id) = ScoreOf(dbStart, id)
              /\ TopScorerOf(db) = pexels_id

\* the second of two successful runs re-uses A, whose score went from 2.0
\* to 4.0 over the two runs; A is still the only background of the history
C24_Witness ==
    /\ run = 2
    /\ Succeeded
    /\ ReusedInRun
    /\ pexels_id = "A"
    /\ ScoreOf(dbStart, "A") = 3 * ScoreScale
    /\ ScoreOf(db, "A") = 4 * ScoreScale
    /\ BackgroundIds(db) = {"A"}

\* C25 - No double distribution: over runs that are executed one at a time
\* on the same history, a source id is handed to an uploader in at most one
\* run, also when a run fails after its uploads and the pipeline is invoked
\* again.
C25_NoDoubleDistribution ==
    Attempted # {} => video_id \notin distributed

\* the stages of a run that is not stopped, the uploads apart
OtherStages ==
    {"fetch", "filter_used", "validate", "download", "remove_background",
     "select_background", "compose", "metadata", "mark_used",
     "record_background", "cleanup"}

\* a dry run is past step 8
DryRunPastMetadata == DRY_RUN /\ "metadata" \in Invoked

\* C26 - Dry run: with DRY_RUN true no uploader is called for any platform,
\* whatever credentials are set; every other stage runs and a dry run that
\* succeeds has committed the history (source id marked used, background
\* score + 1.0): the source is consumed when the next run starts, and no
\* run selects a consumed source.
C26_DryRun ==
    /\ [](DRY_RUN => Attempted = {} /\ uploadFailed = {})
    /\ []((DryRunPastMetadata /\ failKind # "crash") =>
             pc = "mark_used" \/ "mark_used" \in Invoked)
    /\ []((DRY_RUN /\ Succeeded) =>
             /\ Invoked = OtherStages
             /\ SourceCommitted
             /\ BackgroundCommitted)
    /\ [][(DRY_RUN /\ Succeeded) =>
             /\ video_id \in consumed'
             /\ video_id \in UsedIds(dbStart')]_vars
    /\ [](video_id # NoId =>
             /\ video_id \notin consumed
             /\ video_id \notin UsedIds(dbStart))

\* a dry run with the credentials of all three platforms set has succeeded:
\* nothing was uploaded and the history is committed
C26_Witness ==
    /\ DRY_RUN
    /\ Succeeded
    /\ Configured = Platforms
    /\ Attempted = {}
    /\ SourceCommitted
    /\ BackgroundCommitted

=============================================================================
